---- MODULE Spec2Model ----
(***************************************************************************)
(* storekit-go receipt verification client (client.go).                    *)
(*                                                                         *)
(* One client value (verificationURL, autofixEnvironment) is shared by the *)
(* Verify calls in Calls.  A Verify call is a sequence of steps separated  *)
(* by its blocking points: http.DefaultClient.Do and ioutil.ReadAll of     *)
(* each network call.  The App Store server and the network are the        *)
(* environment: they choose the outcome of every Do and ReadAll.           *)
(*                                                                         *)
(* Go's nil is modelled as the empty sequence (None) and a non-nil value   *)
(* v as <<v>> (Some(v)), so that a nil body differs from an empty body.    *)
(***************************************************************************)
EXTENDS Integers, Sequences, FiniteSets, TLC

VARIABLES
    client,      \* the *client: [verificationURL, autofixEnvironment]
    calls,       \* per Verify call: its position, locals, results and log
    lastConfig,  \* history: the last constructor / mutator applied to client
    resends      \* history: number of resends made by Verify calls on client

vars == <<client, calls, lastConfig, resends>>

----------------------------------------------------------------------------
(* Bounds of the model *)

\* Verify calls are started on the client until this many resends were made.
MaxResends == 2

\* The longest sequence of runes between the braces of a body given to
\* parseResponse.
MaxBodyLen == 5

\* Identities of the (possibly concurrent) Verify invocations.
Calls == {"v1", "v2"}

----------------------------------------------------------------------------
(* Constants of the program *)

sandboxReceiptVerificationURL == "https://sandbox.itunes.apple.com/verifyReceipt"

productionReceiptVerificationURL == "https://buy.itunes.apple.com/verifyReceipt"

\* status 21007: a sandbox (TEST) receipt was sent to production (LIVE)
ReceiptResponseStatusSandboxReceiptSentToProduction == 21007

\* status 21008: a production (LIVE) receipt was sent to sandbox (TEST)
ReceiptResponseStatusProductionReceiptSentToSandbox == 21008

\* http.StatusOK
StatusOK == 200

URLs == {sandboxReceiptVerificationURL, productionReceiptVerificationURL}

None == <<>>

Some(v) == <<v>>

----------------------------------------------------------------------------
(* The environment's inputs *)

\* Receipt requests a caller may pass; "unmarshalable" is one json.Marshal
\* rejects.
Requests == {"abc", "unmarshalable"}

\* HTTP status codes the server may answer with.
HTTPStatuses == {200, 500}

\* Causes of a failed http.Client.Do and of a failed ioutil.ReadAll.
ContextCanceled == "context canceled"

DoCauses == {"connection reset by peer", ContextCanceled}

ReadCauses == {"unexpected EOF", ContextCanceled}

\* Response bodies the server may send, as sequences of runes.  "S" stands
\* for the member name "status" with its quotes; "\n" and "\t" are control
\* characters.
BodyStatus0 == <<"{", "S", ":", "0", "}">>

Body21007 == <<"{", "S", ":", "2", "1", "0", "0", "7", "}">>

Body21008 == <<"{", "S", ":", "2", "1", "0", "0", "8", "}">>

Body21007Ctl == <<"{", "\n", "S", ":", "2", "1", "\t", "0", "0", "7", "}">>

BodyGarbage == <<"<", "h", ">">>

NetBodies == {BodyStatus0, Body21007, Body21008, Body21007Ctl, BodyGarbage}

----------------------------------------------------------------------------
(* Constructor, mutators and predicates of client *)

NewVerificationClient ==
    [verificationURL    |-> productionReceiptVerificationURL,
     autofixEnvironment |-> TRUE]

\* Mutation: the slip of OnSandboxEnv's own doc comment, the production URL.
OnSandboxEnvSetsProduction(c) ==
    [c EXCEPT !.verificationURL = productionReceiptVerificationURL]

OnSandboxEnv(c) == [c EXCEPT !.verificationURL = sandboxReceiptVerificationURL]

\* Mutation: OnProductionEnv resets the client to the constructor's defaults.
OnProductionEnvResets(c) == NewVerificationClient

OnProductionEnv(c) == [c EXCEPT !.verificationURL = productionReceiptVerificationURL]

WithoutEnvAutoFix(c) == [c EXCEPT !.autofixEnvironment = FALSE]

isSandbox(c) == c.verificationURL = sandboxReceiptVerificationURL

isProduction(c) == c.verificationURL = productionReceiptVerificationURL

----------------------------------------------------------------------------
(* Errors: errors.Wrap(cause, msg) and errors.New(msg) *)

Wrap(cause, msg) == [msg |-> msg, cause |-> cause]

New(msg) == [msg |-> msg, cause |-> ""]

----------------------------------------------------------------------------
(* json.Marshal of the request *)

Marshal(req) ==
    IF req = "unmarshalable"
    THEN [json |-> None, err |-> Some("json: unsupported value")]
    ELSE [json |-> Some(<<"{", "R", ":", req, "}">>), err |-> None]

----------------------------------------------------------------------------
(* parseResponse: strip control runes, then json.Unmarshal *)

ControlRunes == {"\n", "\t"}

IsControl(r) == r \in ControlRunes

\* Mutation: a control rune is replaced by a space instead of being dropped.
StripControlReplacesWithSpace(body) ==
    [n \in 1..Len(body) |-> IF IsControl(body[n]) THEN " " ELSE body[n]]

\* bytes.Map with a mapping that returns -1 for control runes: they are
\* dropped, the others are kept in order.
StripControl(body) == SelectSeq(body, LAMBDA r : ~IsControl(r))

Digits == <<"0", "1", "2", "3", "4", "5", "6", "7", "8", "9">>

IsDigit(r) == \E d \in 1..10 : Digits[d] = r

DigitValue(r) == (CHOOSE d \in 1..10 : Digits[d] = r) - 1

\* The insignificant whitespace of JSON (of the runes of the model).
IsSpace(r) == r \in {" ", "\t", "\n"}

RECURSIVE TrimLeft(_)
TrimLeft(s) == IF s # <<>> /\ IsSpace(s[1]) THEN TrimLeft(Tail(s)) ELSE s

RECURSIVE TrimRight(_)
TrimRight(s) ==
    IF s # <<>> /\ IsSpace(s[Len(s)])
    THEN TrimRight(SubSeq(s, 1, Len(s) - 1))
    ELSE s

Trim(s) == TrimRight(TrimLeft(s))

RECURSIVE NumberValue(_)
NumberValue(ds) ==
    IF ds = <<>> THEN 0
    ELSE 10 * NumberValue(SubSeq(ds, 1, Len(ds) - 1)) + DigitValue(ds[Len(ds)])

\* A JSON number of the subset: digits, no leading zero unless it is "0".
IsNumber(ds) ==
    /\ ds # <<>>
    /\ \A n \in 1..Len(ds) : IsDigit(ds[n])
    /\ (Len(ds) > 1 => ds[1] # "0")

\* json.Unmarshal into a ReceiptResponse, for the JSON subset
\*   ws "{" ws [ "S" ws ":" ws number ws ] "}" ws
\* An object without the member decodes to the zero Status.
Unmarshal(data) ==
    LET t == Trim(data) IN
    IF Len(t) < 2 \/ t[1] # "{" \/ t[Len(t)] # "}"
    THEN [resp |-> None, err |-> Some("invalid character")]
    ELSE LET inner == Trim(SubSeq(t, 2, Len(t) - 1)) IN
         IF inner = <<>>
         THEN [resp |-> Some([Status |-> 0]), err |-> None]
         ELSE LET afterKey == TrimLeft(Tail(inner)) IN
              IF inner[1] # "S" \/ afterKey = <<>> \/ afterKey[1] # ":"
              THEN [resp |-> None, err |-> Some("invalid character")]
              ELSE LET num == TrimLeft(Tail(afterKey)) IN
                   IF IsNumber(num)
                   THEN [resp |-> Some([Status |-> NumberValue(num)]), err |-> None]
                   ELSE [resp |-> None, err |-> Some("invalid character")]

parseResponse(body) ==
    LET u == Unmarshal(StripControl(body)) IN
    IF u.err # None
    THEN [resp |-> None,
          err  |-> Some(Wrap(u.err[1], "could not unmarshal app store response"))]
    ELSE [resp |-> u.resp, err |-> None]

----------------------------------------------------------------------------
(* post: the outcomes of its stages *)

\* A URL that url.Parse rejects.  No exported function stores it in a
\* client; only a composite literal inside the package does.
MalformedURL == ":"

\* http.NewRequest("POST", url, requestBuf): its error, if any.
NewRequest(url) ==
    IF url = MalformedURL
    THEN Some("parse \":\": missing protocol scheme")
    ELSE None

\* post returns the error of http.NewRequest as it got it.
postNewRequest(url) ==
    [body |-> None,
     err  |-> IF NewRequest(url) # None
              THEN Some([msg |-> NewRequest(url)[1], cause |-> ""])
              ELSE None]

\* http.DefaultClient.Do failed
postDoFailed(cause) ==
    [body |-> None, err |-> Some(Wrap(cause, "could not connect to app store server"))]

StatusText(code) == IF code = 500 THEN "500 Internal Server Error" ELSE "200 OK"

\* Mutation: the status code of the response is not checked.
postStatusCheckSkipped(code) == [body |-> None, err |-> None]

\* r.StatusCode != http.StatusOK
postStatusCheck(code) ==
    IF code # StatusOK
    THEN [body |-> None,
          err  |-> Some(New("app store http error (" \o StatusText(code) \o ")"))]
    ELSE [body |-> None, err |-> None]

\* ioutil.ReadAll failed
postReadFailed(cause) ==
    [body |-> None, err |-> Some(Wrap(cause, "could not read app store response"))]

postOk(bytes) == [body |-> Some(bytes), err |-> None]

----------------------------------------------------------------------------
(* queryStore: post, then parseResponse *)

\* Mutation: a body that does not decode is not returned.
queryStoreDropsBody(p) ==
    IF p.err # None
    THEN [body |-> p.body, resp |-> None, err |-> p.err]
    ELSE LET r == parseResponse(p.body[1]) IN
         [body |-> IF r.err # None THEN None ELSE p.body,
          resp |-> r.resp, err |-> r.err]

queryStore(p) ==
    IF p.err # None
    THEN [body |-> p.body, resp |-> None, err |-> p.err]
    ELSE LET r == parseResponse(p.body[1]) IN
         [body |-> p.body, resp |-> r.resp, err |-> r.err]

----------------------------------------------------------------------------
(* checkResendNeeded *)

\* Mutation: the two new URLs exchanged.
checkResendNeededSwapped(c, resp) ==
    IF resp.Status = ReceiptResponseStatusSandboxReceiptSentToProduction
    THEN IF isProduction(c)
         THEN [resendNeeded |-> TRUE, newUrl |-> productionReceiptVerificationURL]
         ELSE [resendNeeded |-> FALSE, newUrl |-> ""]
    ELSE IF resp.Status = ReceiptResponseStatusProductionReceiptSentToSandbox
    THEN IF isSandbox(c)
         THEN [resendNeeded |-> TRUE, newUrl |-> sandboxReceiptVerificationURL]
         ELSE [resendNeeded |-> FALSE, newUrl |-> ""]
    ELSE [resendNeeded |-> FALSE, newUrl |-> ""]

\* Mutation: the default case asks for a resend too (the retry its TODO
\* sketches), to the other environment.
checkResendNeededDefault(c, resp) ==
    IF resp.Status = ReceiptResponseStatusSandboxReceiptSentToProduction
    THEN IF isProduction(c)
         THEN [resendNeeded |-> TRUE, newUrl |-> sandboxReceiptVerificationURL]
         ELSE [resendNeeded |-> FALSE, newUrl |-> ""]
    ELSE IF resp.Status = ReceiptResponseStatusProductionReceiptSentToSandbox
    THEN IF isSandbox(c)
         THEN [resendNeeded |-> TRUE, newUrl |-> productionReceiptVerificationURL]
         ELSE [resendNeeded |-> FALSE, newUrl |-> ""]
    ELSE [resendNeeded |-> TRUE,
          newUrl |-> IF isProduction(c) THEN sandboxReceiptVerificationURL
                     ELSE productionReceiptVerificationURL]

\* Mutation: the environment checks isProduction / isSandbox left out.
checkResendNeededNoEnvCheck(c, resp) ==
    IF resp.Status = ReceiptResponseStatusSandboxReceiptSentToProduction
    THEN [resendNeeded |-> TRUE, newUrl |-> sandboxReceiptVerificationURL]
    ELSE IF resp.Status = ReceiptResponseStatusProductionReceiptSentToSandbox
    THEN [resendNeeded |-> TRUE, newUrl |-> productionReceiptVerificationURL]
    ELSE [resendNeeded |-> FALSE, newUrl |-> ""]

checkResendNeeded(c, resp) ==
    IF resp.Status = ReceiptResponseStatusSandboxReceiptSentToProduction
    THEN IF isProduction(c)
         THEN [resendNeeded |-> TRUE, newUrl |-> sandboxReceiptVerificationURL]
         ELSE [resendNeeded |-> FALSE, newUrl |-> ""]
    ELSE IF resp.Status = ReceiptResponseStatusProductionReceiptSentToSandbox
    THEN IF isSandbox(c)
         THEN [resendNeeded |-> TRUE, newUrl |-> productionReceiptVerificationURL]
         ELSE [resendNeeded |-> FALSE, newUrl |-> ""]
    ELSE [resendNeeded |-> FALSE, newUrl |-> ""]

----------------------------------------------------------------------------
(* Verify *)

\* A Verify invocation that has not been made (or whose results the caller
\* has taken).
IdleCall ==
    [pc      |-> "idle",   \* idle, do, read, inspect, returned
     attempt |-> 0,        \* queryStore calls started by this invocation
     req     |-> "",       \* receiptRequest
     reqJSON |-> None,     \* reqJSON
     url     |-> "",       \* url argument of the queryStore call in progress
     ctx     |-> "none",   \* when ctx was canceled: none, before, do1, read1,
                           \* between, do2, read2
     body    |-> None,     \* the named results body, resp, err
     resp    |-> None,
     err     |-> None,
     cfg0    |-> None,     \* history: the client when Verify was entered
     prior   |-> FALSE,    \* history: a resend had been made on the client
                           \* before Verify was entered
     posts   |-> <<>>,     \* history: [url, payload] of every post started
     codes   |-> <<>>,     \* history: the status code of every response Do
                           \* returned
     queries |-> <<>>]     \* history: per finished queryStore call, the
                           \* outcome out of its post and the results q

\* Mutation: Verify switches auto fix off, as the doc comment of
\* NewVerificationClient describes.
VerifyReceiverDisablesAutofix(c) == [c EXCEPT !.autofixEnvironment = FALSE]

\* Mutation: Verify stores the endpoint of the other environment in its
\* receiver.
VerifyReceiverSwitchesEndpoint(c) ==
    [c EXCEPT !.verificationURL = CHOOSE u \in URLs : u # c.verificationURL]

\* Verify does not assign to any field of its receiver.
VerifyReceiver(c) == c

\* Mutation: the response of the second call is inspected like the first.
VerifyAfterQueryLoop(k, q) ==
    [k EXCEPT !.body = q.body, !.resp = q.resp, !.err = q.err,
              !.pc = IF q.err # None THEN "returned" ELSE "inspect"]

\* Mutation: a failed first call is retried once (the retry the TODO of
\* post sketches).
VerifyAfterQueryRetry(k, q) ==
    IF k.attempt = 1 /\ q.err # None
    THEN [k EXCEPT !.body = q.body, !.resp = q.resp, !.err = q.err,
                   !.pc = "do", !.attempt = 2,
                   !.posts = Append(k.posts, k.posts[1])]
    ELSE [k EXCEPT !.body = q.body, !.resp = q.resp, !.err = q.err,
                   !.pc = IF k.attempt = 1 THEN "inspect" ELSE "returned"]

\* Mutation: when the resend fails the decoded response of the first call is
\* kept.
VerifyAfterQueryKeepsFirst(k, q) ==
    IF k.attempt = 1
    THEN [k EXCEPT !.body = q.body, !.resp = q.resp, !.err = q.err,
                   !.pc = IF q.err # None THEN "returned" ELSE "inspect"]
    ELSE [k EXCEPT !.body = IF q.err # None THEN k.body ELSE q.body,
                   !.resp = IF q.err # None THEN k.resp ELSE q.resp,
                   !.err = q.err,
                   !.pc = "returned"]

\* Verify when a queryStore call returns q: after the first call an error
\* returns at once, otherwise the response is inspected; the second call's
\* results are returned as they are.
VerifyAfterQuery(k, q) ==
    IF k.attempt = 1
    THEN [k EXCEPT !.body = q.body, !.resp = q.resp, !.err = q.err,
                   !.pc = IF q.err # None THEN "returned" ELSE "inspect"]
    ELSE [k EXCEPT !.body = q.body, !.resp = q.resp, !.err = q.err,
                   !.pc = "returned"]

\* queryStore(ctx, buf, url) up to its first blocking point: post builds the
\* request and calls Do; if the request cannot be built post and queryStore
\* end at once.
queryStoreStart(k, url) ==
    LET k1 == [k EXCEPT !.attempt = @ + 1, !.url = url,
                        !.posts = Append(@, [url |-> url, payload |-> k.reqJSON[1]])]
        nr == postNewRequest(url)
    IN  IF nr.err # None
        THEN VerifyAfterQuery(k1, queryStore(nr))
        ELSE [k1 EXCEPT !.pc = "do"]

\* Mutation: the error of json.Marshal is not checked.
VerifyStartIgnoresMarshalError(c, req, ctx) ==
    LET m == Marshal(req)
        payload == IF m.json = None THEN <<>> ELSE m.json[1]
    IN  [IdleCall EXCEPT
            !.pc = "do", !.attempt = 1, !.req = req, !.ctx = ctx,
            !.cfg0 = Some(c), !.reqJSON = Some(payload), !.url = c.verificationURL,
            !.posts = <<[url |-> c.verificationURL, payload |-> payload]>>]

\* Mutation: the request is sent to both endpoints at once.
VerifyStartHedged(c, req, ctx) ==
    LET m == Marshal(req)
        payload == IF m.json = None THEN <<>> ELSE m.json[1]
    IN  [IdleCall EXCEPT
            !.pc = "do", !.attempt = 1, !.req = req, !.ctx = ctx,
            !.cfg0 = Some(c), !.reqJSON = Some(payload), !.url = c.verificationURL,
            !.posts = <<[url |-> c.verificationURL, payload |-> payload],
                        [url |-> CHOOSE u \in URLs : u # c.verificationURL,
                         payload |-> payload]>>]

\* Verify up to its first blocking point: json.Marshal, and on success the
\* start of queryStore(ctx, buf, c.verificationURL).
VerifyStart(c, req, ctx) ==
    LET m == Marshal(req) IN
    IF m.err # None
    THEN [IdleCall EXCEPT
            !.pc = "returned", !.req = req, !.ctx = ctx, !.cfg0 = Some(c),
            !.err = Some(Wrap(m.err[1], "could not marshal receipt request"))]
    ELSE queryStoreStart([IdleCall EXCEPT !.req = req, !.ctx = ctx,
                                         !.cfg0 = Some(c), !.reqJSON = m.json],
                         c.verificationURL)

\* Mutation: c.autofixEnvironment is not consulted.
resendDecisionAlways(c, resp) == checkResendNeeded(c, resp)

\* The resend decision: checkResendNeeded is consulted only with auto fix on.
resendDecision(c, resp) ==
    IF c.autofixEnvironment
    THEN checkResendNeeded(c, resp)
    ELSE [resendNeeded |-> FALSE, newUrl |-> ""]

\* Mutation: a canceled context is noticed before the resend, which is not
\* attempted.
VerifyInspectChecksCtx(c, k) ==
    LET d == resendDecision(c, k.resp[1]) IN
    IF d.resendNeeded /\ k.ctx # "none"
    THEN [k EXCEPT !.pc = "returned", !.body = None, !.resp = None,
                   !.err = Some(Wrap(ContextCanceled,
                                     "could not connect to app store server"))]
    ELSE IF d.resendNeeded
    THEN queryStoreStart(k, d.newUrl)
    ELSE [k EXCEPT !.pc = "returned"]

\* Verify after a successful first queryStore: resend to newUrl with a new
\* reader over the same reqJSON, or return the first results.
VerifyInspect(c, k) ==
    LET d == resendDecision(c, k.resp[1]) IN
    IF d.resendNeeded
    THEN queryStoreStart(k, d.newUrl)
    ELSE [k EXCEPT !.pc = "returned"]

----------------------------------------------------------------------------
(* The environment: outcomes of Do and ReadAll *)

DoPhase(k) == IF k.attempt = 1 THEN "do1" ELSE "do2"

ReadPhase(k) == IF k.attempt = 1 THEN "read1" ELSE "read2"

\* A context canceled before Do is called makes Do fail; one canceled while
\* Do runs races with the round trip.
DoOutcomes(k) ==
    LET fail == {[ok |-> FALSE, cause |-> c, code |-> 0, bytes |-> <<>>] :
                    c \in IF k.ctx = "none" THEN DoCauses \ {ContextCanceled}
                          ELSE IF k.ctx = DoPhase(k) THEN DoCauses
                          ELSE {ContextCanceled}}
        answer == {[ok |-> TRUE, cause |-> "", code |-> s, bytes |-> <<>>] :
                      s \in HTTPStatuses}
    IN  IF k.ctx \in {"none", DoPhase(k)} THEN fail \cup answer ELSE fail

ReadOutcomes(k) ==
    {[ok |-> FALSE, cause |-> c, code |-> StatusOK, bytes |-> <<>>] :
        c \in IF k.ctx = "none" THEN ReadCauses \ {ContextCanceled} ELSE ReadCauses}
    \cup {[ok |-> TRUE, cause |-> "", code |-> StatusOK, bytes |-> b] : b \in NetBodies}

----------------------------------------------------------------------------
(* Actions *)

\* History: the outcome and the results of a finished queryStore call.
Logged(k, out, q) == [k EXCEPT !.queries = Append(@, [out |-> out, q |-> q])]

\* History: a queryStore call that ended within the step that started it,
\* http.NewRequest having failed.
LoggedNewRequest(k) ==
    IF Len(k.posts) > Len(k.queries) /\ k.pc = "returned"
    THEN Logged(k, [ok |-> FALSE, cause |-> NewRequest(k.url)[1], code |-> 0,
                    bytes |-> <<>>],
                [body |-> k.body, resp |-> k.resp, err |-> k.err])
    ELSE k

\* The mutators are not synchronized with Verify: the client is configured
\* while no Verify call is running on it.
Quiescent == \A i \in Calls : calls[i].pc = "idle"

OnSandboxEnvCall ==
    /\ Quiescent
    /\ client' = OnSandboxEnv(client)
    /\ lastConfig' = "OnSandboxEnv"
    /\ UNCHANGED <<calls, resends>>

OnProductionEnvCall ==
    /\ Quiescent
    /\ client' = OnProductionEnv(client)
    /\ lastConfig' = "OnProductionEnv"
    /\ UNCHANGED <<calls, resends>>

WithoutEnvAutoFixCall ==
    /\ Quiescent
    /\ client' = WithoutEnvAutoFix(client)
    /\ lastConfig' = "WithoutEnvAutoFix"
    /\ UNCHANGED <<calls, resends>>

VerifyCall(i, req, ctx) ==
    /\ calls[i].pc = "idle"
    /\ resends < MaxResends
    /\ calls' = [calls EXCEPT ![i] =
                    [LoggedNewRequest(VerifyStart(client, req, ctx))
                        EXCEPT !.prior = resends > 0]]
    /\ client' = VerifyReceiver(client)
    /\ UNCHANGED <<lastConfig, resends>>

\* http.DefaultClient.Do of the post in progress returns: an error or a
\* status other than 200 ends queryStore, a 200 goes on to ioutil.ReadAll.
DoReturn(i) ==
    /\ calls[i].pc = "do"
    /\ \E out \in DoOutcomes(calls[i]) :
          LET k == IF out.ok THEN [calls[i] EXCEPT !.codes = Append(@, out.code)]
                   ELSE calls[i]
              p == IF out.ok THEN postStatusCheck(out.code)
                   ELSE postDoFailed(out.cause)
          IN  calls' = [calls EXCEPT ![i] =
                           IF p.err # None
                           THEN Logged(VerifyAfterQuery(k, queryStore(p)),
                                       out, queryStore(p))
                           ELSE [k EXCEPT !.pc = "read"]]
    /\ client' = VerifyReceiver(client)
    /\ UNCHANGED <<lastConfig, resends>>

\* ioutil.ReadAll of the post in progress returns: post ends, queryStore
\* decodes the body and Verify goes on with its results.
ReadReturn(i) ==
    /\ calls[i].pc = "read"
    /\ \E out \in ReadOutcomes(calls[i]) :
          LET p == IF out.ok THEN postOk(out.bytes) ELSE postReadFailed(out.cause)
          IN  calls' = [calls EXCEPT ![i] =
                           Logged(VerifyAfterQuery(calls[i], queryStore(p)),
                                  out, queryStore(p))]
    /\ client' = VerifyReceiver(client)
    /\ UNCHANGED <<lastConfig, resends>>

Inspect(i) ==
    /\ calls[i].pc = "inspect"
    /\ calls' = [calls EXCEPT ![i] =
                    LoggedNewRequest(VerifyInspect(client, calls[i]))]
    /\ client' = VerifyReceiver(client)
    /\ resends' = IF calls'[i].attempt = 2 THEN resends + 1 ELSE resends
    /\ UNCHANGED lastConfig

\* The caller cancels the context it passed to a Verify call in progress.
Cancel(i) ==
    /\ calls[i].pc \in {"do", "read", "inspect"}
    /\ calls[i].ctx = "none"
    /\ calls' = [calls EXCEPT ![i].ctx =
                    IF calls[i].pc = "do" THEN DoPhase(calls[i])
                    ELSE IF calls[i].pc = "read" THEN ReadPhase(calls[i])
                    ELSE "between"]
    /\ UNCHANGED <<client, lastConfig, resends>>

\* The caller takes the results of a returned Verify call.
Collect(i) ==
    /\ calls[i].pc = "returned"
    /\ calls' = [calls EXCEPT ![i] = IdleCall]
    /\ UNCHANGED <<client, lastConfig, resends>>

Init ==
    /\ client = NewVerificationClient
    /\ calls = [i \in Calls |-> IdleCall]
    /\ lastConfig = "NewVerificationClient"
    /\ resends = 0

Next ==
    \/ OnSandboxEnvCall
    \/ OnProductionEnvCall
    \/ WithoutEnvAutoFixCall
    \/ \E i \in Calls, req \in Requests, ctx \in {"none", "before"} :
          VerifyCall(i, req, ctx)
    \/ \E i \in Calls : DoReturn(i)
    \/ \E i \in Calls : ReadReturn(i)
    \/ \E i \in Calls : Inspect(i)
    \/ \E i \in Calls : Cancel(i)
    \/ \E i \in Calls : Collect(i)

Spec == Init /\ [][Next]_vars

\* Every network call eventually returns, with a response or an error, and a
\* running Verify call is scheduled.
SpecFair ==
    /\ Spec
    /\ \A i \in Calls :
          WF_vars(DoReturn(i)) /\ WF_vars(ReadReturn(i)) /\ WF_vars(Inspect(i))

\* Bodies for parseResponse: every sequence of at most MaxBodyLen runes of
\* ParseRunes, bare and between braces.
ParseRunes == {"S", ":", "1", "0", "\n", " "}

ParseMiddles == UNION {[1..n -> ParseRunes] : n \in 0..MaxBodyLen}

ParseBodies == ParseMiddles \cup {<<"{">> \o m \o <<"}">> : m \in ParseMiddles}

\* ioutil.ReadAll returns one of ParseBodies: queryStore decodes it with
\* parseResponse and Verify goes on with the results.
ParseReadReturn(i) ==
    /\ calls[i].pc = "read"
    /\ \E b \in ParseBodies :
          LET out == [ok |-> TRUE, cause |-> "", code |-> StatusOK, bytes |-> b]
              q   == queryStore(postOk(b))
          IN  calls' = [calls EXCEPT ![i] =
                           Logged(VerifyAfterQuery(calls[i], q), out, q)]
    /\ client' = VerifyReceiver(client)
    /\ UNCHANGED <<lastConfig, resends>>

\* One Verify call after another on a new client, each decoding a body of
\* ParseBodies.
NextParse ==
    \/ VerifyCall("v1", "abc", "none")
    \/ DoReturn("v1")
    \/ ParseReadReturn("v1")
    \/ Inspect("v1")
    \/ Collect("v1")

SpecParse == Init /\ [][NextParse]_vars

\* A client as a composite literal inside the package may build it: any
\* verificationURL, among them one http.NewRequest rejects.
InitLiteral ==
    /\ client \in [verificationURL    : URLs \cup {MalformedURL},
                    autofixEnvironment : BOOLEAN]
    /\ calls = [i \in Calls |-> IdleCall]
    /\ lastConfig = "client{}"
    /\ resends = 0

SpecLiteral == InitLiteral /\ [][Next]_vars

----------------------------------------------------------------------------
(* Vocabulary of the properties *)

Results(k) == [body |-> k.body, resp |-> k.resp, err |-> k.err]

\* The first queryStore call of k succeeded (post and decode).
FirstOk(k) == Len(k.queries) >= 1 /\ k.queries[1].q.err = None

\* The first queryStore call of k failed.
FirstFailed(k) == Len(k.queries) >= 1 /\ k.queries[1].q.err # None

FirstStatus(k) == k.queries[1].q.resp[1].Status

MismatchStatuses ==
    {ReceiptResponseStatusSandboxReceiptSentToProduction,
     ReceiptResponseStatusProductionReceiptSentToSandbox}

\* Status st tells a client configured as c that the receipt belongs to the
\* other environment.
Mismatched(c, st) ==
    \/ isProduction(c) /\ st = ReceiptResponseStatusSandboxReceiptSentToProduction
    \/ isSandbox(c) /\ st = ReceiptResponseStatusProductionReceiptSentToSandbox

\* Status st is the mismatch status of the environment c is not configured for.
WrongDirection(c, st) ==
    \/ isSandbox(c) /\ st = ReceiptResponseStatusSandboxReceiptSentToProduction
    \/ isProduction(c) /\ st = ReceiptResponseStatusProductionReceiptSentToSandbox

OtherURL(c) ==
    IF isProduction(c) THEN sandboxReceiptVerificationURL
    ELSE productionReceiptVerificationURL

\* The step is a step of mutator m (every mutator records itself in
\* lastConfig; a mutator step that changes nothing is a stuttering step).
MutatorStep(m) ==
    lastConfig' = m /\ <<client, lastConfig>>' # <<client, lastConfig>>

----------------------------------------------------------------------------
(* Properties *)

\* C1: with auto fix on, a LIVE client whose first call decodes to 21007 (a
\* TEST client whose first call decodes to 21008) posts a second time, to the
\* other endpoint and with the same serialized request, and Verify returns
\* the body, response and error of that second call.
C1_ResendOutcome ==
    \A i \in Calls :
        LET k == calls[i] IN
        (/\ FirstOk(k)
         /\ k.cfg0[1].autofixEnvironment
         /\ Mismatched(k.cfg0[1], FirstStatus(k))
         /\ k.pc # "inspect")
        => /\ Len(k.posts) = 2
           /\ k.posts[1].url = k.cfg0[1].verificationURL
           /\ k.posts[2].url = OtherURL(k.cfg0[1])
           /\ k.posts[1].payload = Marshal(k.req).json[1]
           /\ k.posts[2].payload = k.posts[1].payload
           /\ (k.pc = "returned"
                 => Len(k.queries) = 2 /\ Results(k) = k.queries[2].q)

\* A LIVE client got 21007, resent to TEST and returned the second call's
\* status 0, which differs from what the first call gave.
C1_Witness ==
    \E i \in Calls :
        LET k == calls[i] IN
        /\ k.pc = "returned"
        /\ FirstOk(k)
        /\ isProduction(k.cfg0[1])
        /\ FirstStatus(k) = ReceiptResponseStatusSandboxReceiptSentToProduction
        /\ Len(k.posts) = 2
        /\ k.posts[2].url = sandboxReceiptVerificationURL
        /\ k.resp = Some([Status |-> 0])
        /\ k.body = Some(BodyStatus0)
        /\ Results(k) # k.queries[1].q

\* C2: a Verify call posts at most twice; once the second call has returned
\* Verify has returned, with the second call's results, even when they carry
\* a mismatch status again.
C2_AtMostTwoPosts ==
    \A i \in Calls :
        LET k == calls[i] IN
        /\ Len(k.posts) <= 2
        /\ k.attempt = Len(k.posts)
        /\ Len(k.queries) <= Len(k.posts)
        /\ (Len(k.queries) = 2
              => k.pc = "returned" /\ Results(k) = k.queries[2].q)

\* The second response carries a mismatch status again and is what Verify
\* returned after two posts.
C2_Witness ==
    \E i \in Calls :
        LET k == calls[i] IN
        /\ k.pc = "returned"
        /\ Len(k.posts) = 2
        /\ Len(k.queries) = 2
        /\ k.err = None
        /\ k.resp[1].Status \in MismatchStatuses

\* C3: when the first call succeeds with a status that is no mismatch status,
\* Verify returns after that one post to the configured endpoint, with the
\* bytes the server sent, their decoded response and no error, whatever the
\* configured endpoint and the auto fix flag are.
C3_SingleCallPassThrough ==
    \A i \in Calls :
        LET k == calls[i] IN
        (/\ FirstOk(k)
         /\ FirstStatus(k) \notin MismatchStatuses
         /\ k.pc # "inspect")
        => /\ k.pc = "returned"
           /\ Len(k.posts) = 1
           /\ k.posts[1].url = k.cfg0[1].verificationURL
           /\ k.body = Some(k.queries[1].out.bytes)
           /\ k.resp = parseResponse(k.queries[1].out.bytes).resp
           /\ k.resp # None
           /\ k.err = None

\* A client with auto fix on returned status 0 after one post.
C3_Witness ==
    \E i \in Calls :
        LET k == calls[i] IN
        /\ k.pc = "returned"
        /\ FirstOk(k)
        /\ k.cfg0[1].autofixEnvironment
        /\ FirstStatus(k) = 0
        /\ Len(k.posts) = 1
        /\ k.resp = Some([Status |-> 0])

\* C4: with auto fix disabled a Verify call posts once, whatever the endpoint
\* and the first status are, and returns the first call's results.
C4_NoResendWithoutAutofix ==
    \A i \in Calls :
        LET k == calls[i] IN
        (k.pc # "idle" /\ ~k.cfg0[1].autofixEnvironment)
        => /\ Len(k.posts) <= 1
           /\ (FirstOk(k) /\ k.pc # "inspect" => k.pc = "returned")
           /\ (k.pc = "returned" /\ Len(k.queries) >= 1
                 => Len(k.queries) = 1 /\ Results(k) = k.queries[1].q)

\* Two calls on a LIVE client without auto fix returned after one post each,
\* one with status 21007 and one with status 21008.
C4_Witness ==
    \E i, j \in Calls :
        /\ calls[i].pc = "returned" /\ calls[j].pc = "returned"
        /\ ~client.autofixEnvironment /\ isProduction(client)
        /\ ~calls[i].cfg0[1].autofixEnvironment
        /\ ~calls[j].cfg0[1].autofixEnvironment
        /\ FirstOk(calls[i]) /\ FirstOk(calls[j])
        /\ FirstStatus(calls[i]) = ReceiptResponseStatusSandboxReceiptSentToProduction
        /\ FirstStatus(calls[j]) = ReceiptResponseStatusProductionReceiptSentToSandbox
        /\ Len(calls[i].posts) = 1 /\ Len(calls[j].posts) = 1

\* C5: a mismatch status in the wrong direction (21007 on a TEST client,
\* 21008 on a LIVE client) makes Verify return the first call's results after
\* one post, auto fix on or off; and a resend never goes to the endpoint of
\* the first post.
C5_NoResendWrongDirection ==
    \A i \in Calls :
        LET k == calls[i] IN
        /\ (/\ FirstOk(k)
            /\ WrongDirection(k.cfg0[1], FirstStatus(k))
            /\ k.pc # "inspect")
           => /\ k.pc = "returned"
              /\ Len(k.posts) = 1
              /\ Results(k) = k.queries[1].q
        /\ (Len(k.posts) = 2 => k.posts[2].url # k.posts[1].url)

\* A TEST client with auto fix on returned status 21007 after one post.
C5_Witness ==
    \E i \in Calls :
        LET k == calls[i] IN
        /\ k.pc = "returned"
        /\ FirstOk(k)
        /\ isSandbox(k.cfg0[1])
        /\ k.cfg0[1].autofixEnvironment
        /\ FirstStatus(k) = ReceiptResponseStatusSandboxReceiptSentToProduction
        /\ Len(k.posts) = 1
        /\ k.resp = Some([Status |-> ReceiptResponseStatusSandboxReceiptSentToProduction])

C7_AutofixDisabledAfterAttempt ==
    \A i \in Calls :
        /\ (calls[i].pc = "returned" /\ Len(calls[i].posts) = 2
              => ~client.autofixEnvironment)
        /\ (calls[i].prior => Len(calls[i].posts) <= 1)

\* C8: when json.Marshal fails Verify returns nil, nil and the wrapped
\* marshal error, and has posted nothing.
C8_MarshalFailure ==
    \A i \in Calls :
        LET k == calls[i] IN
        (k.pc # "idle" /\ Marshal(k.req).err # None)
        => /\ k.pc = "returned"
           /\ k.body = None
           /\ k.resp = None
           /\ k.err = Some(Wrap(Marshal(k.req).err[1],
                                "could not marshal receipt request"))
           /\ k.posts = <<>>
           /\ k.queries = <<>>

\* A Verify call of a request that does not marshal has returned.
C8_Witness ==
    \E i \in Calls :
        LET k == calls[i] IN
        /\ k.pc = "returned"
        /\ k.req = "unmarshalable"
        /\ k.err # None
        /\ k.posts = <<>>

\* C9: when the first call fails (Do, HTTP status, ReadAll or decode), Verify
\* has returned that error after its one post, with no response, whatever
\* the auto fix flag and the endpoint are.
C9_FirstFailureIsTerminal ==
    \A i \in Calls :
        LET k == calls[i] IN
        FirstFailed(k)
        => /\ k.pc = "returned"
           /\ Len(k.posts) = 1
           /\ Len(k.queries) = 1
           /\ k.err = k.queries[1].q.err
           /\ k.resp = None

\* With auto fix on, one call returned the connection error of a canceled
\* context and another the decode error of an undecodable body, each after
\* one post.
C9_Witness ==
    \E i, j \in Calls :
        /\ calls[i].pc = "returned" /\ calls[j].pc = "returned"
        /\ calls[i].cfg0[1].autofixEnvironment
        /\ calls[j].cfg0[1].autofixEnvironment
        /\ FirstFailed(calls[i]) /\ FirstFailed(calls[j])
        /\ calls[i].err = Some(Wrap(ContextCanceled,
                                    "could not connect to app store server"))
        /\ calls[j].err[1].msg = "could not unmarshal app store response"
        /\ calls[j].body = Some(BodyGarbage)
        /\ Len(calls[i].posts) = 1 /\ Len(calls[j].posts) = 1

\* C10: a client no mutator was applied to has the production URL and auto
\* fix on; OnSandboxEnv and OnProductionEnv set the sandbox resp. production
\* URL and keep the auto fix flag, WithoutEnvAutoFix switches auto fix off
\* and keeps the URL, and no mutator starts a post or touches a Verify call.
C10_ConstructorAndMutators ==
    /\ [](lastConfig = "NewVerificationClient"
            => isProduction(client) /\ client.autofixEnvironment)
    /\ [][/\ (MutatorStep("OnSandboxEnv")
                => /\ isSandbox(client')
                   /\ client'.autofixEnvironment = client.autofixEnvironment)
          /\ (MutatorStep("OnProductionEnv")
                => /\ isProduction(client')
                   /\ client'.autofixEnvironment = client.autofixEnvironment)
          /\ (MutatorStep("WithoutEnvAutoFix")
                => /\ ~client'.autofixEnvironment
                   /\ client'.verificationURL = client.verificationURL)
          /\ (lastConfig' # lastConfig \/ client' # client
                => calls' = calls /\ resends' = resends)]_vars

\* OnSandboxEnv and then WithoutEnvAutoFix were applied: the URL OnSandboxEnv
\* set is kept.
C10_Witness ==
    /\ lastConfig = "WithoutEnvAutoFix"
    /\ isSandbox(client)
    /\ ~client.autofixEnvironment


\* The n-th finished queryStore call of k got a response and read its body.
BodyRead(k, n) == k.queries[n].out.ok /\ k.queries[n].out.code = StatusOK

\* C11: a response whose status code is not 200 ends post with the HTTP
\* status error, without its body being read or decoded, and Verify returns
\* that error with a nil response and a nil body, on the first call and on
\* the resend.
C11_HTTPStatusError ==
    \A i \in Calls :
        LET k == calls[i] IN
        \A n \in 1..Len(k.codes) :
            k.codes[n] # StatusOK
            => /\ n = Len(k.codes)
               /\ k.pc = "returned"
               /\ Len(k.queries) = n
               /\ k.queries[n].out.bytes = <<>>
               /\ k.err = Some(New("app store http error ("
                                      \o StatusText(k.codes[n]) \o ")"))
               /\ k.resp = None
               /\ k.body = None

\* The resend of a Verify call was answered with status code 500, after a
\* first call that decoded to a response.
C11_Witness ==
    \E i \in Calls :
        LET k == calls[i] IN
        /\ k.pc = "returned"
        /\ k.codes = <<StatusOK, 500>>
        /\ Len(k.posts) = 2
        /\ k.queries[1].q.resp # None
        /\ k.resp = None
        /\ k.body = None

\* C12: a body that does not decode once its control runes are stripped
\* makes Verify return the decode error, a nil response and the bytes of
\* that body, on the first call and on the resend (whose body it then is).
C12_DecodeErrorKeepsBody ==
    \A i \in Calls :
        LET k == calls[i] IN
        \A n \in 1..Len(k.queries) :
            (BodyRead(k, n) /\ Unmarshal(StripControl(k.queries[n].out.bytes)).err # None)
            => /\ n = Len(k.queries)
               /\ k.pc = "returned"
               /\ k.err # None
               /\ k.err[1].msg = "could not unmarshal app store response"
               /\ k.resp = None
               /\ k.body = Some(k.queries[n].out.bytes)

\* The resend got an undecodable body, which Verify returned with the decode
\* error in place of the body of the first call.
C12_Witness ==
    \E i \in Calls :
        LET k == calls[i] IN
        /\ k.pc = "returned"
        /\ Len(k.queries) = 2
        /\ k.queries[1].q.body = Some(Body21007)
        /\ k.body = Some(BodyGarbage)
        /\ k.resp = None
        /\ k.err[1].msg = "could not unmarshal app store response"


\* The descriptions errors.Wrap adds for the stages serialize, connect, read
\* and decode.
StageDescriptions ==
    {"could not marshal receipt request",
     "could not connect to app store server",
     "could not read app store response",
     "could not unmarshal app store response"}

\* The descriptions of the HTTP status errors.
HTTPStatusDescriptions ==
    {"app store http error (" \o StatusText(s) \o ")" : s \in HTTPStatuses}

InFlight(k) == Len(k.posts) - Len(k.queries)

\* C14: the network calls of one Verify call are sequential: at most one is
\* in flight at any time, and the second is started only by the step that
\* inspects the decoded mismatch status of the completed first call.
C14_SequentialCalls ==
    /\ [](\A i \in Calls :
            LET k == calls[i] IN
            /\ InFlight(k) \in {0, 1}
            /\ InFlight(k) = 1 <=> k.pc \in {"do", "read"}
            /\ Len(k.posts) = 2
                 => /\ FirstOk(k)
                    /\ k.queries[1].q.resp # None
                    /\ FirstStatus(k) \in MismatchStatuses)
    /\ [][\A i \in Calls :
            Len(calls'[i].posts) > Len(calls[i].posts) /\ calls[i].pc # "idle"
            => /\ calls[i].pc = "inspect"
               /\ InFlight(calls[i]) = 0
               /\ calls[i].resp = calls[i].queries[1].q.resp
               /\ Len(calls'[i].posts) = 2]_vars

C14_Witness ==
    \E i \in Calls :
        LET k == calls[i] IN
        /\ k.pc = "read"
        /\ k.attempt = 2
        /\ Len(k.posts) = 2
        /\ Len(k.queries) = 1
        /\ k.posts[2].url # k.posts[1].url


\* The error of a network call that failed on the canceled context.
CanceledError(msg) == Some(Wrap(ContextCanceled, msg))

\* The first response of k asks for a resend under the configuration k read.
ResendTriggered(k) ==
    /\ FirstOk(k)
    /\ resendDecision(k.cfg0[1], k.queries[1].q.resp[1]).resendNeeded

\* C15 as stated: a context canceled during the first network call makes
\* Verify return the cancellation as a connection error with no resend; one
\* canceled between the calls makes the resend fail with the cancellation,
\* which Verify returns with no decoded response.
C15_CancelAsStated ==
    \A i \in Calls :
        LET k == calls[i] IN
        /\ k.ctx \in {"do1", "read1"}
             => /\ Len(k.posts) = 1
                /\ k.pc = "returned"
                     => /\ k.err = CanceledError("could not connect to app store server")
                        /\ k.resp = None
        /\ (k.ctx = "between" /\ k.pc = "returned" /\ ResendTriggered(k))
             => /\ Len(k.posts) = 2
                /\ k.err = CanceledError("could not connect to app store server")
                /\ k.resp = None

\* C15, amended: a context canceled before the first network call makes it
\* fail; when the first call fails on the cancellation Verify returns that
\* error (a connection error from Do, a read error from ReadAll) with no
\* resend; when the first call completes despite a cancellation during it
\* Verify goes on, and a resend then fails on the cancellation; a context
\* canceled between the calls makes the resend fail with the cancellation,
\* which Verify returns with no decoded response and no body.
C15_CancelOutcome ==
    \A i \in Calls :
        LET k == calls[i]
            canceledFirst == /\ Len(k.queries) >= 1
                             /\ ~k.queries[1].out.ok
                             /\ k.queries[1].out.cause = ContextCanceled
        IN
        /\ (k.ctx = "before" /\ Len(k.posts) >= 1)
             => /\ k.pc \in {"do", "returned"}
                /\ k.pc = "returned" => canceledFirst
        /\ canceledFirst
             => /\ k.pc = "returned"
                /\ Len(k.posts) = 1
                /\ k.resp = None
                /\ k.body = None
                /\ k.err = CanceledError(IF k.codes = <<>>
                                         THEN "could not connect to app store server"
                                         ELSE "could not read app store response")
        /\ (k.ctx \in {"do1", "read1", "between"} /\ Len(k.posts) = 2)
             => /\ k.pc \in {"do", "returned"}
                /\ k.queries[1].q.resp # None
                /\ k.pc = "returned"
                     => /\ Len(k.queries) = 2
                        /\ ~k.queries[2].out.ok
                        /\ k.queries[2].out.cause = ContextCanceled
                        /\ k.err = CanceledError("could not connect to app store server")
                        /\ k.resp = None
                        /\ k.body = None
        /\ (k.ctx = "between" /\ k.pc = "returned" /\ ResendTriggered(k))
             => Len(k.posts) = 2

C15_Witness ==
    \E i \in Calls :
        LET k == calls[i] IN
        /\ k.ctx = "between"
        /\ k.pc = "returned"
        /\ Len(k.posts) = 2
        /\ k.queries[1].q.resp # None
        /\ k.err = CanceledError("could not connect to app store server")
        /\ k.resp = None


\* The results of a queryStore call on url, from the outcome of its own
\* network call alone.
QueryResult(url, out) ==
    IF NewRequest(url) # None THEN queryStore(postNewRequest(url))
    ELSE IF ~out.ok /\ out.code = 0 THEN queryStore(postDoFailed(out.cause))
    ELSE IF out.code # StatusOK THEN queryStore(postStatusCheck(out.code))
    ELSE IF ~out.ok THEN queryStore(postReadFailed(out.cause))
    ELSE queryStore(postOk(out.bytes))

\* The network calls a Verify call has started, from the configuration c, the
\* request and the outcomes outs of its own completed network calls;
\* inspected says whether the first results have been inspected.
ExpectedPosts(c, req, outs, inspected) ==
    LET m     == Marshal(req)
        first == [url |-> c.verificationURL, payload |-> m.json[1]]
        q1    == QueryResult(c.verificationURL, outs[1])
        d     == resendDecision(c, q1.resp[1])
    IN  IF m.err # None THEN <<>>
        ELSE IF Len(outs) = 0 \/ q1.err # None \/ ~inspected \/ ~d.resendNeeded
        THEN <<first>>
        ELSE <<first, [url |-> d.newUrl, payload |-> m.json[1]]>>

Remaining(k) ==
    IF k.pc = "returned" THEN 0
    ELSE IF k.pc = "idle" THEN 6
    ELSE IF k.attempt = 2 THEN (IF k.pc = "read" THEN 1 ELSE 2)
    ELSE IF k.pc = "inspect" THEN 3
    ELSE IF k.pc = "read" THEN 4
    ELSE 5

\* A Verify call between its start and its return.
Running(k) == k.pc \in {"do", "read", "inspect"}

\* C17: every Verify call terminates when its network calls return: no call
\* stays running forever, a running call stops running only by returning to
\* its caller, and each of its steps lowers the number of steps it may still
\* take, so that no sequence of mismatch statuses keeps it running.
C17_VerifyTerminates ==
    /\ \A i \in Calls : []<>(~Running(calls[i]))
    /\ [][\A i \in Calls :
            (Running(calls[i]) /\ ~Running(calls'[i])) => calls'[i].pc = "returned"]_vars
    /\ [][\A i \in Calls :
            (calls'[i].pc # calls[i].pc /\ calls'[i].pc # "idle")
            => Remaining(calls'[i]) < Remaining(calls[i])]_vars

C17_Witness ==
    \E i \in Calls :
        LET k == calls[i] IN
        /\ k.pc = "returned"
        /\ Len(k.queries) = 2
        /\ k.queries[1].q.resp # None
        /\ k.queries[1].q.resp[1].Status \in MismatchStatuses
        /\ k.resp # None
        /\ k.resp[1].Status \in MismatchStatuses
        /\ k.err = None


\* C18: Verify returns a decoded response exactly when it returns no error;
\* when the resend fails after a successful first call, Verify returns the
\* error of the resend and no response, the first response being discarded.
C18_ResponseXorError ==
    \A i \in Calls :
        LET k == calls[i] IN
        k.pc = "returned"
        => /\ \/ k.resp # None /\ k.err = None
              \/ k.resp = None /\ k.err # None
           /\ (Len(k.queries) = 2 /\ k.queries[2].q.err # None)
                => /\ k.queries[1].q.resp # None
                   /\ k.err = k.queries[2].q.err
                   /\ k.resp = None

C18_Witness ==
    \E i \in Calls :
        LET k == calls[i] IN
        /\ k.pc = "returned"
        /\ Len(k.queries) = 2
        /\ k.queries[1].q.resp # None
        /\ k.queries[1].q.err = None
        /\ k.queries[2].out.cause = "connection reset by peer"
        /\ k.err = Some(Wrap("connection reset by peer",
                             "could not connect to app store server"))
        /\ k.resp = None


\* C19: after any sequence of operations the client's endpoint is exactly one
\* of the two fixed endpoints, isSandbox and isProduction never being both
\* true or both false, and the auto fix flag is monotone: no step of any
\* operation switches it on again once it is off.
C19_EndpointAndAutofixMonotone ==
    /\ [](/\ client.verificationURL \in URLs
          /\ isSandbox(client) # isProduction(client))
    /\ [][~client.autofixEnvironment => ~client'.autofixEnvironment]_vars

\* Auto fix was switched off, the endpoint was set again afterwards and a
\* Verify call has run to its return under that configuration.
C19_Witness ==
    /\ lastConfig = "OnProductionEnv"
    /\ ~client.autofixEnvironment
    /\ isProduction(client)
    /\ \E i \in Calls :
          calls[i].pc = "returned" /\ calls[i].cfg0 = Some(client)


\* The body with every control rune removed and nothing put in its place.
RECURSIVE Removed(_)
Removed(body) ==
    IF body = <<>> THEN <<>>
    ELSE IF IsControl(Head(body)) THEN Removed(Tail(body))
    ELSE <<Head(body)>> \o Removed(Tail(body))

\* C20: the decoder's result is that of decoding the body with every control
\* rune removed: for every body read, queryStore's decoding succeeds exactly
\* when the body without its control runes decodes, with the same Status,
\* and fails with the decoding error otherwise; the body itself is returned
\* as it was read.
C20_DecodeOfStrippedBody ==
    \A i \in Calls :
        LET k == calls[i] IN
        \A n \in 1..Len(k.queries) :
            BodyRead(k, n)
            => LET b == k.queries[n].out.bytes
                   q == k.queries[n].q
                   u == Unmarshal(Removed(b))
               IN  /\ q.body = Some(b)
                   /\ q.err = None <=> u.err = None
                   /\ q.err = None => q.resp = u.resp
                   /\ q.err # None
                        => /\ q.resp = None
                           /\ q.err = Some(Wrap(u.err[1],
                                    "could not unmarshal app store response"))

\* A valid response with a control rune inside its number decodes, to the
\* number the remaining digits spell.
C20_Witness ==
    \E i \in Calls :
        LET k == calls[i] IN
        /\ k.pc = "returned"
        /\ k.body = Some(<<"{", "S", ":", "1", "\n", "0", "}">>)
        /\ k.err = None
        /\ k.resp = Some([Status |-> 10])

====
